---- MODULE Spec2Model ----
(***************************************************************************)
(* DroneDB index engine (src/libs/ddb.cpp): path resolution                *)
(* (getIndexPathList, getPathList), change detection (checkUpdate) and     *)
(* the add / remove / sync reconciliation of the entries table.            *)
(*                                                                         *)
(* A path is the sequence of its elements as std::filesystem iterates      *)
(* them: an absolute path starts with the root-directory element "/",      *)
(* "a/b" is <<"a","b">>, the empty path is <<>>.  generic_string() joins   *)
(* the elements with "/" and is one-to-one on these sequences, so a stored *)
(* path and a printed path are kept as sequences.                          *)
(***************************************************************************)
EXTENDS Integers, Sequences, FiniteSets, TLC

\* ------------------------------------------------------------------ bounds
\* modification times range over 1..MaxTime
MaxTime == 2
\* file contents range over 1..MaxContent
MaxContent == 2
\* focal-plane resolution units range over 1..MaxUnit (2 is the inch, 3 the cm)
MaxUnit == 3
\* focal-plane X resolutions (pixels per unit) range over 0..MaxRes
MaxRes == 2
\* image widths in pixels range over 0..MaxPixels
MaxPixels == 2
\* 35mm-equivalent focal tags range over the multiples of 36 up to 36 * MaxFocal
MaxFocal == 1
\* degrees of a geotag range over the multiples of 45 up to 45 * MaxDeg
MaxDeg == 1
\* longest list of candidate paths handed to one call
MaxPaths == 2
\* largest maxDepth given to getPathList
MaxDepth == 2

\* ------------------------------------------------------- sequence helpers
Last(s) == s[Len(s)]

Front(s) == SubSeq(s, 1, Len(s) - 1)

Range(s) == {s[i] : i \in 1..Len(s)}

IsPrefix(s, t) == Len(s) <= Len(t) /\ SubSeq(t, 1, Len(s)) = s

RECURSIVE Repeat(_, _)
Repeat(x, n) == IF n <= 0 THEN <<>> ELSE <<x>> \o Repeat(x, n - 1)

RECURSIVE SetToSeqs(_)
\* every ordering of a finite set
SetToSeqs(S) ==
    IF S = {} THEN {<<>>}
    ELSE UNION {{<<x>> \o t : t \in SetToSeqs(S \ {x})} : x \in S}

\* --------------------------------------------------- std::filesystem::path
is_absolute(p) == p # <<>> /\ p[1] = "/"

has_relative_path(p) == IF is_absolute(p) THEN Len(p) >= 2 ELSE p # <<>>

\* path::filename(): the last element; empty for "/" and for the empty path
filename(p) == IF has_relative_path(p) THEN Last(p) ELSE ""

\* path::has_parent_path(): "/" has a parent path (itself)
has_parent_path(p) == IF has_relative_path(p) THEN Len(p) >= 2 ELSE p # <<>>

\* path::parent_path(): "/" is its own parent, a single name has the empty one
parent_path(p) == IF has_relative_path(p) THEN Front(p) ELSE p

\* operator/ : an absolute right-hand side replaces the left-hand side
Join(p, q) == IF is_absolute(q) THEN q ELSE p \o q

RECURSIVE NormalStack(_, _)
\* lexically_normal, steps 4-6: drop ".", cancel "name/..", drop ".." at "/"
NormalStack(p, st) ==
    IF p = <<>> THEN st
    ELSE LET x == Head(p) IN
         IF x = "." \/ x = "" THEN NormalStack(Tail(p), st)
         ELSE IF x = ".." /\ st # <<>> /\ Last(st) = "/" THEN NormalStack(Tail(p), st)
         ELSE IF x = ".." /\ st # <<>> /\ Last(st) # ".." THEN NormalStack(Tail(p), Front(st))
         ELSE NormalStack(Tail(p), Append(st, x))

\* path::lexically_normal(): a removed last element leaves a trailing
\* separator (the empty element ""), an empty result becomes "."
lexically_normal(p) ==
    IF p = <<>> THEN <<>>
    ELSE LET st   == NormalStack(p, <<>>)
             gone == Last(p) \in {".", "", ".."} /\ (st = <<>> \/ Last(st) # "..")
         IN IF st = <<>> THEN <<".">>
            ELSE IF gone /\ Last(st) # "/" THEN Append(st, "")
            ELSE st

RECURSIVE Mismatch(_, _)
\* std::mismatch: length of the longest common prefix
Mismatch(p, b) ==
    IF p = <<>> \/ b = <<>> \/ Head(p) # Head(b) THEN 0
    ELSE 1 + Mismatch(Tail(p), Tail(b))

\* path::lexically_relative(base); <<>> is the empty path it returns on failure
lexically_relative(p, base) ==
    IF is_absolute(p) # is_absolute(base) THEN <<>>
    ELSE LET k    == Mismatch(p, base)
             a    == SubSeq(p, k + 1, Len(p))
             b    == SubSeq(base, k + 1, Len(base))
             up   == Cardinality({i \in 1..Len(b) : b[i] = ".."})
             down == Cardinality({i \in 1..Len(b) : b[i] \notin {"..", ".", ""}})
             n    == down - up
         IN IF a = <<>> /\ b = <<>> THEN <<".">>
            ELSE IF n < 0 THEN <<>>
            ELSE IF n = 0 /\ (a = <<>> \/ Head(a) = "") THEN <<".">>
            ELSE Repeat("..", n) \o a

\* -------------------------------------------------------------- filesystem
\* The tracked root: rootDirectory(db) is the directory that holds ".ddb";
\* ddb::open makes the database path absolute, so the root is absolute.
RootDir == <<"/", "ds">>

DdbName == ".ddb"

ImgFile == RootDir \o <<"img.jpg">>

ADir == RootDir \o <<"a">>

\* every location the model's filesystem can hold, as canonical absolute paths
Universe ==
    { <<"/">>, <<"/", "out.jpg">>, RootDir,
      RootDir \o <<DdbName>>, RootDir \o <<DdbName, "dbase.sqlite">>,
      ImgFile, ADir, ADir \o <<"b">>, ADir \o <<"b", "c.txt">>,
      ADir \o <<DdbName>>, ADir \o <<DdbName, "x.bin">> }

\* the order in which a directory's entries are listed (readdir order is
\* unspecified; the model fixes one)
NameOrder == <<"img.jpg", DdbName, "a", "b", "c.txt", "dbase.sqlite", "x.bin", "out.jpg", "ds">>

Absent == [kind |-> "none", mtime |-> 0, content |-> 0]

DirNode(m) == [kind |-> "dir", mtime |-> m, content |-> 0]

FileNode(m, c) == [kind |-> "file", mtime |-> m, content |-> c]

VARIABLES
    fs,        \* the filesystem: Universe -> node
    rows,      \* the persisted (committed) entries table, in rowid order
    call,      \* the call that has just ended, with its arguments
    status,    \* how it ended: "ok", or the error that propagated to the caller
    out,       \* the lines it wrote to standard output, in order
    before,    \* the persisted table when it began
    work,      \* the table as its connection saw it when it ended
    hashed,    \* the files checkUpdate hashed during it
    list,      \* what a resolver returned: the paths pushed in order (files),
               \* then the keys of its directories map (dirs), in any order
    exifData,  \* exif::Parser: the tags of the image it was built on
    parsed     \* what the method of the parser that was called returned

vars == <<fs, rows, call, status, out, before, work, hashed, list, exifData, parsed>>

\* fs::absolute: a relative path is taken from the working directory
absolute(p, cwd) == IF is_absolute(p) THEN p ELSE cwd \o p

RECURSIVE Walk(_, _)
\* Resolve the elements p from the location cur, as stat() does: the canonical
\* path of the target, or <<>> when a step fails (no such entry, or a step
\* through something that is no directory).
Walk(p, cur) ==
    IF p = <<>> THEN cur
    ELSE LET x    == Head(p)
             isd  == cur \in Universe /\ fs[cur].kind = "dir"
             kid  == cur \o <<x>>
         IN IF x = "/" THEN Walk(Tail(p), <<"/">>)
            ELSE IF ~isd THEN <<>>
            ELSE IF x \in {".", ""} THEN Walk(Tail(p), cur)
            ELSE IF x = ".." THEN Walk(Tail(p), IF Len(cur) > 1 THEN Front(cur) ELSE cur)
            ELSE IF kid \in Universe /\ fs[kid].kind # "none" THEN Walk(Tail(p), kid)
            ELSE <<>>

\* fs::canonical of an existing path; <<>> when it does not exist
canonical(p, cwd) == IF p = <<>> THEN <<>> ELSE Walk(absolute(p, cwd), <<>>)

exists(p, cwd) == canonical(p, cwd) # <<>>

is_directory(p, cwd) == LET c == canonical(p, cwd) IN c # <<>> /\ fs[c].kind = "dir"

RECURSIVE ExistingPrefix(_, _, _)
\* weakly_canonical's search: number of leading elements of p that exist
ExistingPrefix(p, k, cwd) ==
    IF k < Len(p) /\ exists(SubSeq(p, 1, k + 1), cwd)
    THEN ExistingPrefix(p, k + 1, cwd) ELSE k

\* fs::weakly_canonical: an existing path becomes its canonical (absolute)
\* path; otherwise the existing leading elements are made canonical, the
\* others appended, and the whole put in normal form.  A relative path is
\* looked up from the working directory.
weakly_canonical(p, cwd) ==
    IF exists(p, cwd) THEN canonical(p, cwd)
    ELSE LET k    == ExistingPrefix(p, 0, cwd)
             head == IF k = 0 THEN <<>> ELSE canonical(SubSeq(p, 1, k), cwd)
         IN lexically_normal(head \o SubSeq(p, k + 1, Len(p)))

\* utils::getModifiedTime, Hash::fileSHA256 and utils::getSize of a path
\* (the size is a function of the content that is not one-to-one)
getModifiedTime(p, cwd) == fs[canonical(p, cwd)].mtime

\* a content is named by its fingerprint; 0 is the empty hash of a directory
fileSHA256(p, cwd) == fs[canonical(p, cwd)].content

getSize(p, cwd) == (fs[canonical(p, cwd)].content + 1) \div 2

\* ---------------------------------------------------------- path resolvers
RECURSIVE IterateFrom(_, _, _, _, _)
\* fs::recursive_directory_iterator over the directory dir (a path as
\* written, found at the location at), through the names on: the entries in
\* pre-order, each with its depth() and whether it is a directory.
\* disable_recursion_pending() is called on an entry named ".ddb" and, in
\* getPathList, on an entry at depth >= maxDepth - 1 when maxDepth > 0.
IterateFrom(dir, at, names, depth, maxDepth) ==
    IF names = <<>> THEN <<>>
    ELSE LET rp     == dir \o <<Head(names)>>
             loc    == at \o <<Head(names)>>
             there  == loc \in Universe /\ fs[loc].kind # "none"
             isdir  == there /\ fs[loc].kind = "dir"
             pruned == filename(rp) = DdbName \/ (maxDepth > 0 /\ depth >= maxDepth - 1)
             below  == IF isdir /\ ~pruned
                       THEN IterateFrom(rp, loc, NameOrder, depth + 1, maxDepth) ELSE <<>>
             rest   == IterateFrom(dir, at, Tail(names), depth, maxDepth)
         IN IF there THEN <<[path |-> rp, depth |-> depth, isdir |-> isdir]>> \o below \o rest
            ELSE rest

Iterate(dir, maxDepth, cwd) == IterateFrom(dir, canonical(dir, cwd), NameOrder, 0, maxDepth)

\* the ancestors taken from the absolute path, up to the tracked root
AncestorsToRoot(p) == IF p = <<>> THEN {} ELSE {<<".">>}

RECURSIVE Ancestors(_)
\* the paths visited by "while (p.has_parent_path()) p = p.parent_path()"
Ancestors(p) ==
    IF ~has_parent_path(p) \/ parent_path(p) = p THEN {}
    ELSE {parent_path(p)} \cup Ancestors(parent_path(p))

RECURSIVE AncestorLoops(_)
\* that loop never ends when it reaches "/", which is its own parent path
AncestorLoops(p) ==
    has_parent_path(p) /\ (parent_path(p) = p \/ AncestorLoops(parent_path(p)))

\* utils::pathsAreChildren: every candidate lies inside the parent directory
pathsAreChildren(parentPath, paths, cwd) ==
    \A i \in 1..Len(paths) :
        IsPrefix(parentPath, lexically_normal(absolute(paths[i], cwd)))

\* a candidate that is not on disk passed over in silence
IndexCandidateSkipsMissing(p, includeDirs, cwd) ==
    IF filename(p) = DdbName THEN [err |-> "ok", files |-> <<>>, dirs |-> {}]
    ELSE IF is_directory(p, cwd) THEN
        LET ents  == Iterate(p, 0, cwd)
            asDir(e) == e.isdir /\ includeDirs
            pushed(e) == ~asDir(e)
            kept  == SelectSeq(ents, pushed)
            up    == IF includeDirs
                     THEN UNION {Ancestors(ents[i].path) : i \in 1..Len(ents)} ELSE {}
            loops == includeDirs /\ \E i \in 1..Len(ents) : AncestorLoops(ents[i].path)
        IN [err   |-> IF loops THEN "hang" ELSE "ok",
            files |-> [i \in 1..Len(kept) |-> kept[i].path],
            dirs  |-> {ents[i].path : i \in {j \in 1..Len(ents) : asDir(ents[j])}}
                      \cup up \cup {p}]
    ELSE IF exists(p, cwd) THEN
        [err   |-> IF includeDirs /\ AncestorLoops(p) THEN "hang" ELSE "ok",
         files |-> <<p>>,
         dirs  |-> IF includeDirs THEN Ancestors(p) ELSE {}]
    ELSE [err |-> "ok", files |-> <<>>, dirs |-> {}]

\* getIndexPathList, one candidate p: what it appends to result (files), what
\* it puts in the directories map (dirs), and how the step ends
IndexCandidate(p, includeDirs, cwd) ==
    IF filename(p) = DdbName THEN [err |-> "ok", files |-> <<>>, dirs |-> {}]
    ELSE IF is_directory(p, cwd) THEN
        LET ents  == Iterate(p, 0, cwd)
            asDir(e) == e.isdir /\ includeDirs
            pushed(e) == ~asDir(e)
            kept  == SelectSeq(ents, pushed)
            up    == IF includeDirs
                     THEN UNION {Ancestors(ents[i].path) : i \in 1..Len(ents)} ELSE {}
            loops == includeDirs /\ \E i \in 1..Len(ents) : AncestorLoops(ents[i].path)
        IN [err   |-> IF loops THEN "hang" ELSE "ok",
            files |-> [i \in 1..Len(kept) |-> kept[i].path],
            dirs  |-> {ents[i].path : i \in {j \in 1..Len(ents) : asDir(ents[j])}}
                      \cup up \cup {p}]
    ELSE IF exists(p, cwd) THEN
        [err   |-> IF includeDirs /\ AncestorLoops(p) THEN "hang" ELSE "ok",
         files |-> <<p>>,
         dirs  |-> IF includeDirs THEN Ancestors(p) ELSE {}]
    ELSE [err |-> "notfound", files |-> <<>>, dirs |-> {}]

RECURSIVE IndexCandidates(_, _, _, _)
\* the loop over the candidates: it stops at the first one that throws (or
\* never returns)
IndexCandidates(paths, includeDirs, cwd, acc) ==
    IF paths = <<>> THEN acc
    ELSE LET c == IndexCandidate(Head(paths), includeDirs, cwd) IN
         IF c.err # "ok" THEN [err |-> c.err, files |-> <<>>, dirs |-> {}]
         ELSE IndexCandidates(Tail(paths), includeDirs, cwd,
                              [err |-> "ok", files |-> acc.files \o c.files,
                               dirs |-> acc.dirs \cup c.dirs])

\* the candidates checked one by one as they are reached, never as a whole
getIndexPathListUnchecked(rootDirectory, paths, includeDirs, cwd) ==
    IndexCandidates(paths, includeDirs, cwd, [err |-> "ok", files |-> <<>>, dirs |-> {}])

\* getIndexPathList: the containment check comes first; the result is the
\* files in the order met, followed by the keys of the directories map
getIndexPathList(rootDirectory, paths, includeDirs, cwd) ==
    IF ~pathsAreChildren(rootDirectory, paths, cwd)
    THEN [err |-> "containment", files |-> <<>>, dirs |-> {}]
    ELSE IndexCandidates(paths, includeDirs, cwd, [err |-> "ok", files |-> <<>>, dirs |-> {}])

\* recursion stopped one level too late (depth() >= maxDepth)
PathCandidateDeeper(p, includeDirs, maxDepth, cwd) ==
    IF filename(p) = DdbName THEN [err |-> "ok", files |-> <<>>]
    ELSE IF is_directory(p, cwd) THEN
        LET ents == Iterate(p, IF maxDepth > 0 THEN maxDepth + 1 ELSE maxDepth, cwd)
            pushed(e) == IF e.isdir THEN includeDirs ELSE TRUE
            kept == SelectSeq(ents, pushed)
        IN [err |-> "ok", files |-> [i \in 1..Len(kept) |-> kept[i].path]]
    ELSE IF exists(p, cwd) THEN [err |-> "ok", files |-> <<p>>]
    ELSE [err |-> "notfound", files |-> <<>>]

\* getPathList, one candidate
PathCandidate(p, includeDirs, maxDepth, cwd) ==
    IF filename(p) = DdbName THEN [err |-> "ok", files |-> <<>>]
    ELSE IF is_directory(p, cwd) THEN
        LET ents == Iterate(p, maxDepth, cwd)
            pushed(e) == IF e.isdir THEN includeDirs ELSE TRUE
            kept == SelectSeq(ents, pushed)
        IN [err |-> "ok", files |-> [i \in 1..Len(kept) |-> kept[i].path]]
    ELSE IF exists(p, cwd) THEN [err |-> "ok", files |-> <<p>>]
    ELSE [err |-> "notfound", files |-> <<>>]

RECURSIVE getPathList(_, _, _, _)
getPathList(paths, includeDirs, maxDepth, cwd) ==
    IF paths = <<>> THEN [err |-> "ok", files |-> <<>>]
    ELSE LET c == PathCandidate(Head(paths), includeDirs, maxDepth, cwd)
             r == getPathList(Tail(paths), includeDirs, maxDepth, cwd)
         IN IF c.err # "ok" THEN [err |-> c.err, files |-> <<>>]
            ELSE IF r.err # "ok" THEN r
            ELSE [err |-> "ok", files |-> c.files \o r.files]

\* ------------------------------------------------------------- the entries
\* One row of the entries table.  type, meta, depth and the geometries are
\* the entry classifier's and play no part in reconciliation.
Row(path, hash, mtime, size) == [path |-> path, hash |-> hash, mtime |-> mtime, size |-> size]

HasPath(table, key) == \E i \in 1..Len(table) : table[i].path = key

\* SELECT mtime,hash FROM entries WHERE path=? : the first matching row
Lookup(table, key) == table[CHOOSE i \in 1..Len(table) : table[i].path = key]

\* UPDATE entries SET ... WHERE path=?
UpdateWhere(table, e) ==
    [i \in 1..Len(table) |-> IF table[i].path = e.path THEN e ELSE table[i]]

\* DELETE FROM entries WHERE path = ?
DeleteWhere(table, key) ==
    LET keep(r) == r.path # key IN SelectSeq(table, keep)

\* the path relative to the tracked root, as addToIndex and removeFromIndex
\* compute it (ddb.cpp:242, 293)
relPath(p, directory, cwd) ==
    weakly_canonical(lexically_relative(absolute(p, cwd), absolute(directory, cwd)), cwd)

\* the hash compared whether or not the mtime differs
checkUpdateAlwaysHash(p, dbMtime, dbHash, cwd) ==
    LET folder == is_directory(p, cwd)
        mtime  == getModifiedTime(p, cwd)
        hash   == IF folder THEN 0 ELSE fileSHA256(p, cwd)
    IN [changed  |-> IF folder THEN mtime # dbMtime ELSE dbHash # hash,
        hashedIt |-> ~folder,
        mtime    |-> mtime,
        hash     |-> hash]

\* a differing mtime reported as a change without comparing the hash
checkUpdateMtimeOnly(p, dbMtime, dbHash, cwd) ==
    LET mtime == getModifiedTime(p, cwd)
    IN [changed  |-> mtime # dbMtime,
        hashedIt |-> FALSE,
        mtime    |-> mtime,
        hash     |-> 0]

\* a folder treated like a file: hashed and compared by hash
checkUpdateHashesFolders(p, dbMtime, dbHash, cwd) ==
    LET mtime  == getModifiedTime(p, cwd)
        differ == mtime # dbMtime
        hash   == IF differ THEN fileSHA256(p, cwd) ELSE 0
    IN [changed  |-> differ /\ dbHash # hash,
        hashedIt |-> differ,
        mtime    |-> mtime,
        hash     |-> hash]

\* checkUpdate: the decision, whether it hashed the file, and the mtime and
\* hash it left in the entry
checkUpdate(p, dbMtime, dbHash, cwd) ==
    LET folder == is_directory(p, cwd)
        mtime  == getModifiedTime(p, cwd)
        differ == mtime # dbMtime
        doHash == differ /\ ~folder
        hash   == IF doHash THEN fileSHA256(p, cwd) ELSE 0
    IN [changed  |-> differ /\ (folder \/ dbHash # hash),
        hashedIt |-> doHash,
        mtime    |-> mtime,
        hash     |-> hash]

\* parseEntry (the entry classifier) with opts.withHash: a fully populated
\* entry for p, its path relative to the root and in normal form
parseEntry(p, directory, cwd) ==
    LET folder == is_directory(p, cwd) IN
    Row(lexically_normal(lexically_relative(absolute(p, cwd), absolute(directory, cwd))),
        IF folder THEN 0 ELSE fileSHA256(p, cwd),
        getModifiedTime(p, cwd),
        IF folder THEN 0 ELSE getSize(p, cwd))

Line(o, path) == <<o, path>>

\* the state a call keeps while it runs: its connection's view of the table,
\* the lines printed, the files checkUpdate hashed, and the error raised
Running(table) == [work |-> table, out |-> <<>>, hashed |-> {}, err |-> "ok"]

Raise(st, e) == [st EXCEPT !.err = e]

\* an UPDATE statement that leaves the mtime column out
doUpdateKeepsMtime(st, e) ==
    [st EXCEPT !.work = [i \in 1..Len(st.work) |->
                            IF st.work[i].path = e.path
                            THEN [e EXCEPT !.mtime = st.work[i].mtime] ELSE st.work[i]],
               !.out = Append(st.out, Line("U", e.path))]

\* doUpdate: the UPDATE statement, then the "U" line
doUpdate(st, e) ==
    [st EXCEPT !.work = UpdateWhere(st.work, e), !.out = Append(st.out, Line("U", e.path))]

\* the entries table created by Database::createTables: path is its primary
\* key, so a row whose path is already stored is refused
PrimaryKeyFree(table, key) == ~HasPath(table, key)

\* the INSERT statement of addToIndex, then the "A" line
doInsert(st, e) ==
    IF ~PrimaryKeyFree(st.work, e.path) THEN Raise(st, "persistence")
    ELSE [st EXCEPT !.work = Append(st.work, e), !.out = Append(st.out, Line("A", e.path))]

\* addToIndex, the body of the loop for one path of the list (ddb.cpp:241-280)
AddOne(st, p, directory, cwd) ==
    LET key   == relPath(p, directory, cwd)
        found == HasPath(st.work, key)
        row   == Lookup(st.work, key)
        cu    == checkUpdate(p, row.mtime, row.hash, cwd)
        st1   == IF found /\ cu.hashedIt
                 THEN [st EXCEPT !.hashed = @ \cup {canonical(p, cwd)}] ELSE st
    IN IF ~found THEN doInsert(st1, parseEntry(p, directory, cwd))
       ELSE IF cu.changed THEN doUpdate(st1, parseEntry(p, directory, cwd))
       ELSE st1

\* the D line printed whether or not the DELETE removed a row
RemoveOneAlwaysReports(st, p, directory, cwd) ==
    LET key == relPath(p, directory, cwd) IN
    [st EXCEPT !.work = DeleteWhere(st.work, key), !.out = Append(st.out, Line("D", key))]

\* removeFromIndex, the body of the loop for one path (ddb.cpp:292-299)
RemoveOne(st, p, directory, cwd) ==
    LET key == relPath(p, directory, cwd) IN
    IF HasPath(st.work, key)
    THEN [st EXCEPT !.work = DeleteWhere(st.work, key), !.out = Append(st.out, Line("D", key))]
    ELSE st

\* a missing file reported, its row never deleted
SyncOneKeepsRow(st, row, directory, cwd) ==
    LET p   == Join(directory, row.path)
        cu  == checkUpdate(p, row.mtime, row.hash, cwd)
        st1 == IF cu.hashedIt THEN [st EXCEPT !.hashed = @ \cup {canonical(p, cwd)}] ELSE st
    IN IF exists(p, cwd)
       THEN IF cu.changed THEN doUpdate(st1, parseEntry(p, directory, cwd)) ELSE st1
       ELSE [st EXCEPT !.out = Append(st.out, Line("D", row.path))]

\* syncIndex, the body of the loop for one fetched row (ddb.cpp:316-332)
SyncOne(st, row, directory, cwd) ==
    LET p   == Join(directory, row.path)
        cu  == checkUpdate(p, row.mtime, row.hash, cwd)
        st1 == IF cu.hashedIt THEN [st EXCEPT !.hashed = @ \cup {canonical(p, cwd)}] ELSE st
    IN IF exists(p, cwd)
       THEN IF cu.changed THEN doUpdate(st1, parseEntry(p, directory, cwd)) ELSE st1
       ELSE [st EXCEPT !.work = DeleteWhere(st.work, row.path),
                       !.out = Append(st.out, Line("D", row.path))]

\* One step of a loop: kind names the loop
OneStep(kind, st, x, directory, cwd) ==
    IF kind = "add" THEN AddOne(st, x, directory, cwd)
    ELSE IF kind = "remove" THEN RemoveOne(st, x, directory, cwd)
    ELSE SyncOne(st, x, directory, cwd)

RECURSIVE Loop(_, _, _, _, _)
\* the loop of a call over its list xs: the states it goes through, from st
\* on; a statement that raises ends it
Loop(kind, st, xs, directory, cwd) ==
    IF xs = <<>> \/ st.err # "ok" THEN <<st>>
    ELSE <<st>> \o Loop(kind, OneStep(kind, st, Head(xs), directory, cwd), Tail(xs),
                        directory, cwd)

\* How the call ends when its failAt-th operation raises (a filesystem read,
\* the classifier, a statement; the operation after the last step is COMMIT);
\* failAt = 0: nothing raises but what the steps themselves raise.
Outcome(tr, failAt) ==
    IF failAt = 0 THEN Last(tr)
    ELSE IF tr[failAt].err = "ok" THEN Raise(tr[failAt], "io")
    ELSE tr[failAt]

\* BEGIN TRANSACTION ... COMMIT around a loop: what the call leaves behind
Transaction(kind, table, xs, failAt, directory, cwd) ==
    LET tr == Loop(kind, Running(table), xs, directory, cwd)
    IN Outcome(tr, IF failAt > Len(tr) THEN 0 ELSE failAt)

\* every statement committed as it is executed
PersistedAutocommit(table, st) == st.work

\* what is persisted when the call ends: COMMIT is reached only without error
Persisted(table, st) == IF st.err = "ok" THEN st.work ELSE table

\* ------------------------------------------------------------ exif::Parser
\* a tag that is not in the image (findKey returns exifData.end()), and a
\* tag with its value
NoTag == [has |-> FALSE, v |-> <<>>]

Tag(v) == [has |-> TRUE, v |-> v]

TagNames ==
    { "Exif.Photo.PixelXDimension", "Exif.Photo.PixelYDimension",
      "Exif.Photo.LensMake", "Exif.Image.Make", "Exif.Photo.LensModel", "Exif.Image.Model",
      "Exif.Photo.FocalLengthIn35mmFilm", "Exif.Image.FocalLengthIn35mmFilm",
      "Exif.Photo.FocalLength", "Exif.Image.FocalLength",
      "Exif.Photo.FocalPlaneResolutionUnit", "Exif.Image.FocalPlaneResolutionUnit",
      "Exif.Photo.FocalPlaneXResolution", "Exif.Image.FocalPlaneXResolution",
      "Exif.GPSInfo.GPSLatitude", "Exif.GPSInfo.GPSLatitudeRef",
      "Exif.GPSInfo.GPSLongitude", "Exif.GPSInfo.GPSLongitudeRef",
      "Exif.GPSInfo.GPSAltitude" }

\* an image without any tag
NoTags == [k \in TagNames |-> NoTag]

\* no method of the parser has been called
NoResult == [fn |-> "none"]

\* Parser::findKey: the first of the keys that the image has, or NoTag
RECURSIVE findKey(_)
findKey(keys) ==
    IF keys = <<>> THEN NoTag
    ELSE IF exifData[Head(keys)].has THEN exifData[Head(keys)]
    ELSE findKey(Tail(keys))

\* A float or double is the fraction n/d with d >= 0, in lowest terms: d = 0
\* stands for +infinity (n = 1), -infinity (n = -1) and NaN (n = 0), as the
\* IEEE operations below produce them.  Rounding is left out.
Abs(n) == IF n < 0 THEN -n ELSE n

Sign(n) == IF n < 0 THEN -1 ELSE IF n > 0 THEN 1 ELSE 0

RECURSIVE Gcd(_, _)
Gcd(a, b) == IF b = 0 THEN a ELSE Gcd(b, a % b)

\* n/d for d >= 0
Flt(n, d) ==
    IF d = 0 THEN [n |-> Sign(n), d |-> 0]
    ELSE LET g == Gcd(Abs(n), d) IN [n |-> Sign(n) * (Abs(n) \div g), d |-> d \div g]

Num(i) == Flt(i, 1)

FMul(a, b) == Flt(a.n * b.n, a.d * b.d)

\* a / b: x/0 is an infinity, 0/0 and inf/inf are NaN, x/inf is 0
FDiv(a, b) ==
    LET n == a.n * b.d
        d == a.d * b.n
    IN IF d < 0 THEN Flt(-n, -d) ELSE Flt(n, d)

\* a + b for finite a and b
FAdd(a, b) == Flt(a.n * b.d + b.n * a.d, a.d * b.d)

IsFinite(x) == x.d # 0

\* x == 0.0f and x > 0.0f (both false for NaN, the second true for +infinity)
IsZero(x) == x.d # 0 /\ x.n = 0

IsPositive(x) == x.n > 0

IsNegative(x) == x.n < 0

\* A string is the sequence of its characters.
Letters ==
    << <<"d", "D">>, <<"j", "J">>, <<"i", "I">>, <<"x", "X">>,
       <<"s", "S">>, <<"w", "W">>, <<"n", "N">>, <<"e", "E">> >>

tolower(ch) ==
    IF \E i \in 1..Len(Letters) : Letters[i][2] = ch
    THEN Letters[CHOOSE i \in 1..Len(Letters) : Letters[i][2] = ch][1] ELSE ch

toupper(ch) ==
    IF \E i \in 1..Len(Letters) : Letters[i][1] = ch
    THEN Letters[CHOOSE i \in 1..Len(Letters) : Letters[i][1] = ch][2] ELSE ch

isspace(ch) == ch = " "

\* utils::toLower, utils::toUpper
toLower(str) == [i \in 1..Len(str) |-> tolower(str[i])]

toUpper(str) == [i \in 1..Len(str) |-> toupper(str[i])]

RECURSIVE ltrim(_)
ltrim(str) == IF str # <<>> /\ isspace(Head(str)) THEN ltrim(Tail(str)) ELSE str

RECURSIVE rtrim(_)
rtrim(str) == IF str # <<>> /\ isspace(Last(str)) THEN rtrim(Front(str)) ELSE str

trim(str) == rtrim(ltrim(str))

Unknown == <<"u", "n", "k", "n", "o", "w", "n">>

\* Parser::extractImageSize: (-1,-1) unless both dimension tags are there
extractImageSize ==
    LET imgWidth  == findKey(<<"Exif.Photo.PixelXDimension">>)
        imgHeight == findKey(<<"Exif.Photo.PixelYDimension">>)
    IN IF imgWidth.has /\ imgHeight.has
       THEN [width |-> imgWidth.v, height |-> imgHeight.v]
       ELSE [width |-> -1, height |-> -1]

extractMake ==
    LET k == findKey(<<"Exif.Photo.LensMake", "Exif.Image.Make">>)
    IN IF k.has THEN k.v ELSE Unknown

extractModel ==
    LET k == findKey(<<"Exif.Photo.LensModel", "Exif.Image.Model">>)
    IN IF k.has THEN k.v ELSE Unknown

\* std::string::find: the 0-based position of the first occurrence of what in
\* str, or -1 (npos); the empty string is found at 0
find(str, what) ==
    LET at == {i \in 0..(Len(str) - Len(what)) : SubSeq(str, i + 1, i + Len(what)) = what}
    IN IF at = {} THEN -1 ELSE CHOOSE i \in at : \A j \in at : i <= j

\* std::string::erase(pos, len)
erase(str, pos, len) == SubSeq(str, 1, pos) \o SubSeq(str, pos + len + 1, Len(str))

RECURSIVE EraseAll(_, _)
\* "while ((pos = model.find(make)) != npos) model.erase(pos, make.length())",
\* for a make that is not empty
EraseAll(model, make) ==
    IF find(model, make) = -1 THEN model
    ELSE EraseAll(erase(model, find(model, make), Len(make)), make)

\* Parser::extractSensor: the string it returns, or the fact that it never
\* returns: erasing the empty make leaves the model as it is, and find
\* succeeds again
extractSensor ==
    LET make  == toLower(extractMake)
        model == toLower(extractModel)
        loops == make # Unknown /\ make = <<>>
        model1 == IF make # Unknown /\ ~loops THEN EraseAll(model, make) ELSE model
    IN [hang |-> loops, s |-> trim(make) \o <<" ">> \o trim(model1)]

\* the static table of sensor widths (mm) by sensor identity
sensorData == [s \in {<<"d", "j", "i", " ", "x">>} |-> Flt(6, 1)]

\* Parser::getMmPerUnit
getMmPerUnit(resolutionUnit) ==
    IF resolutionUnit = 2 THEN Flt(254, 10)
    ELSE IF resolutionUnit = 3 THEN Flt(10, 1)
    ELSE Flt(0, 1)

\* Parser::extractSensorWidth
extractSensorWidth ==
    LET fUnit == findKey(<<"Exif.Photo.FocalPlaneResolutionUnit",
                           "Exif.Image.FocalPlaneResolutionUnit">>)
        fXRes == findKey(<<"Exif.Photo.FocalPlaneXResolution",
                           "Exif.Image.FocalPlaneXResolution">>)
    IN IF ~fUnit.has \/ ~fXRes.has THEN Flt(0, 1)
       ELSE LET mmPerUnit == getMmPerUnit(fUnit.v) IN
            IF IsZero(mmPerUnit) THEN Flt(0, 1)
            ELSE LET pixelsPerUnit == Num(fXRes.v)
                     unitsPerPixel == FDiv(Num(1), pixelsPerUnit)
                     widthInPixels == Num(extractImageSize.width)
                 IN FMul(FMul(widthInPixels, unitsPerPixel), mmPerUnit)

\* Parser::computeFocal; it never returns when extractSensor does not
computeFocal ==
    LET focal35 == findKey(<<"Exif.Photo.FocalLengthIn35mmFilm",
                             "Exif.Image.FocalLengthIn35mmFilm">>)
        focal   == findKey(<<"Exif.Photo.FocalLength", "Exif.Image.FocalLength">>)
    IN IF focal35.has /\ IsPositive(Num(focal35.v))
       THEN [hang |-> FALSE, f35 |-> Num(focal35.v), ratio |-> FDiv(Num(focal35.v), Num(36))]
       ELSE LET width0 == extractSensorWidth
                sensor == extractSensor
                sensorWidth == IF IsZero(width0) /\ sensor.s \in DOMAIN sensorData
                               THEN sensorData[sensor.s] ELSE width0
            IN IF sensor.hang THEN [hang |-> TRUE, f35 |-> Num(0), ratio |-> Num(0)]
               ELSE IF IsPositive(sensorWidth) /\ focal.has
               THEN [hang |-> FALSE,
                     f35 |-> FMul(Num(36), FDiv(Num(focal.v), sensorWidth)),
                     ratio |-> FDiv(Num(focal.v), sensorWidth)]
               ELSE [hang |-> FALSE, f35 |-> Num(0), ratio |-> Num(0)]

\* Parser::evalFrac of the rational <<first, second>>
evalFrac(rational) ==
    IF rational[2] = 0 THEN Num(0)
    ELSE IF rational[2] < 0 THEN Flt(-rational[1], -rational[2])
    ELSE Flt(rational[1], rational[2])

\* geoToDecimal comparing the reference as it is written
geoToDecimalCaseSensitive(geoTag, geoRefTag) ==
    IF ~geoTag.has THEN Num(0)
    ELSE LET sign == IF geoRefTag.has /\ geoRefTag.v \in {<<"S">>, <<"W">>}
                     THEN Num(-1) ELSE Num(1)
             degrees == evalFrac(geoTag.v[1])
             minutes == evalFrac(geoTag.v[2])
             seconds == evalFrac(geoTag.v[3])
         IN FMul(sign, FAdd(FAdd(degrees, FDiv(minutes, Num(60))), FDiv(seconds, Num(3600))))

\* Parser::geoToDecimal
geoToDecimal(geoTag, geoRefTag) ==
    IF ~geoTag.has THEN Num(0)
    ELSE LET sign == IF geoRefTag.has /\ toUpper(geoRefTag.v) \in {<<"S">>, <<"W">>}
                     THEN Num(-1) ELSE Num(1)
             degrees == evalFrac(geoTag.v[1])
             minutes == evalFrac(geoTag.v[2])
             seconds == evalFrac(geoTag.v[3])
         IN FMul(sign, FAdd(FAdd(degrees, FDiv(minutes, Num(60))), FDiv(seconds, Num(3600))))

\* Parser::extractGeo; the altitude keeps its default when the tag is absent
extractGeo ==
    LET altitude == findKey(<<"Exif.GPSInfo.GPSAltitude">>)
    IN [latitude  |-> geoToDecimal(findKey(<<"Exif.GPSInfo.GPSLatitude">>),
                                   findKey(<<"Exif.GPSInfo.GPSLatitudeRef">>)),
        longitude |-> geoToDecimal(findKey(<<"Exif.GPSInfo.GPSLongitude">>),
                                   findKey(<<"Exif.GPSInfo.GPSLongitudeRef">>)),
        altitude  |-> IF altitude.has THEN Tag(evalFrac(altitude.v)) ELSE NoTag]

\* ------------------------------------------------------------ the commands
\* The filesystem of the engine's runs: img.jpg in the root comes and goes
\* and is rewritten, the root's own mtime changes, the directory a (empty) is
\* made and removed; "/", the root and its ".ddb" are always there.
EngineFs(img, rootTime, a) ==
    [u \in Universe |->
        IF u = ImgFile THEN img
        ELSE IF u = ADir THEN a
        ELSE IF u = RootDir THEN DirNode(rootTime)
        ELSE IF u \in {<<"/">>, RootDir \o <<DdbName>>} THEN DirNode(1)
        ELSE IF u \in {<<"/", "out.jpg">>, RootDir \o <<DdbName, "dbase.sqlite">>} THEN FileNode(1, 1)
        ELSE Absent]

\* the filesystem of the resolvers' runs: everything is there
FullFs ==
    [u \in Universe |->
        IF u \in {<<"/", "out.jpg">>, ImgFile, RootDir \o <<DdbName, "dbase.sqlite">>,
                  ADir \o <<"b", "c.txt">>, ADir \o <<DdbName, "x.bin">>}
        THEN FileNode(1, 1) ELSE DirNode(1)]

\* the working directories a command is run from
Cwds == {RootDir, ADir}

\* the candidate paths given to add and remove, as typed; ".ddb" is on disk
\* in the root and is not in the directory a
Candidates == { <<"img.jpg">>, <<"..", "img.jpg">>, <<DdbName>> }

\* the candidate paths given to the resolvers
ResolverCandidates ==
    { <<".">>, <<"..">>, <<"img.jpg">>, <<"a">>, <<"a", "b", "c.txt">>, <<DdbName>>,
      <<DdbName, "dbase.sqlite">>, <<"..", "out.jpg">>, <<"missing.jpg">>,
      <<"b", "c.txt">> }

ListsOf(S) == UNION {[1..n -> S] : n \in 0..MaxPaths}

\* the lists of candidates given to add and remove
ArgLists == ListsOf(Candidates)

Call(fn, cwd, paths, includeDirs, maxDepth) ==
    [fn |-> fn, cwd |-> cwd, paths |-> paths, includeDirs |-> includeDirs, maxDepth |-> maxDepth]

NoCall == Call("none", <<>>, <<>>, FALSE, 0)

NoList == [files |-> <<>>, dirs |-> {}]

\* no command is running: the last one has returned to the shell
Quiet == call = NoCall

Idle ==
    /\ call' = NoCall /\ status' = "ok" /\ out' = <<>> /\ before' = rows' /\ work' = rows'
    /\ hashed' = {} /\ list' = NoList
    /\ UNCHANGED <<exifData, parsed>>

\* img.jpg is written: created, modified or touched, with any mtime
WriteFile(m, c) ==
    /\ Quiet
    /\ fs[ImgFile] # FileNode(m, c)
    /\ fs' = [fs EXCEPT ![ImgFile] = FileNode(m, c)]
    /\ rows' = rows /\ Idle

DeleteFile ==
    /\ Quiet
    /\ fs[ImgFile].kind = "file"
    /\ fs' = [fs EXCEPT ![ImgFile] = Absent]
    /\ rows' = rows /\ Idle

\* the root directory's mtime changes
TouchRoot(m) ==
    /\ Quiet
    /\ fs[RootDir] # DirNode(m)
    /\ fs' = [fs EXCEPT ![RootDir] = DirNode(m)]
    /\ rows' = rows /\ Idle

MakeDir ==
    /\ Quiet
    /\ fs[ADir] = Absent
    /\ fs' = [fs EXCEPT ![ADir] = DirNode(1)]
    /\ rows' = rows /\ Idle

RemoveDir ==
    /\ Quiet
    /\ fs[ADir] # Absent
    /\ fs' = [fs EXCEPT ![ADir] = Absent]
    /\ rows' = rows /\ Idle

\* a call that ended in st: COMMIT is reached only without error
Ended(c, st) ==
    /\ rows' = Persisted(rows, st)
    /\ call' = c /\ status' = st.err /\ out' = st.out /\ before' = rows /\ work' = st.work
    /\ hashed' = st.hashed /\ list' = NoList
    /\ UNCHANGED <<fs, exifData, parsed>>

\* a call that ran its transaction over the list xs
Ran(c, xs) ==
    \E tr \in {Loop(c.fn, Running(rows), xs, RootDir, c.cwd)} :
        \E failAt \in 0..Len(tr) : Ended(c, Outcome(tr, failAt))

\* a call whose path list is resolved first; an error of the resolver ends it
\* before BEGIN TRANSACTION; the keys of the directories map come in an
\* unspecified order
Resolved(c) ==
    \E pl \in {getIndexPathList(RootDir, c.paths, c.includeDirs, c.cwd)} :
        IF pl.err # "ok" THEN Ended(c, Raise(Running(rows), pl.err))
        ELSE \E ord \in SetToSeqs(pl.dirs) : \E xs \in {pl.files \o ord} : Ran(c, xs)

\* addToIndex(db, paths), run from cwd
addToIndex(paths, cwd) == Resolved(Call("add", cwd, paths, TRUE, 0))

\* the list resolved with the ancestor directories, as addToIndex does
removeFromIndexWithAncestors(paths, cwd) == Resolved(Call("remove", cwd, paths, TRUE, 0))

\* removeFromIndex(db, paths), run from cwd
removeFromIndex(paths, cwd) == Resolved(Call("remove", cwd, paths, FALSE, 0))

\* syncIndex(db): the rows are fetched in rowid order
syncIndex == Ran(Call("sync", RootDir, <<>>, FALSE, 0), rows)

\* a command is run from a working directory that exists
Add ==
    /\ Quiet
    /\ \E cwd \in Cwds : is_directory(cwd, cwd) /\ \E paths \in ArgLists : addToIndex(paths, cwd)

Remove ==
    /\ Quiet
    /\ \E cwd \in Cwds : is_directory(cwd, cwd) /\ \E paths \in ArgLists : removeFromIndex(paths, cwd)

Sync == Quiet /\ syncIndex

\* a resolver call that returned (or raised, or never came back)
Listed(c, err, l) ==
    /\ call' = c /\ status' = err /\ list' = l
    /\ out' = <<>> /\ hashed' = {}
    /\ UNCHANGED <<fs, rows, before, work, exifData, parsed>>

ResolveIndex ==
    /\ Quiet
    /\ \E cwd \in Cwds, paths \in ListsOf(ResolverCandidates), includeDirs \in BOOLEAN :
          \E pl \in {getIndexPathList(RootDir, paths, includeDirs, cwd)} :
             Listed(Call("getIndexPathList", cwd, paths, includeDirs, 0), pl.err,
                    [files |-> pl.files, dirs |-> pl.dirs])

ResolvePaths ==
    /\ Quiet
    /\ \E cwd \in Cwds, paths \in ListsOf(ResolverCandidates), includeDirs \in BOOLEAN,
          maxDepth \in (-1)..MaxDepth :
          \E pl \in {getPathList(paths, includeDirs, maxDepth, cwd)} :
             Listed(Call("getPathList", cwd, paths, includeDirs, maxDepth), pl.err,
                    [files |-> pl.files, dirs |-> {}])

\* the command returns to the shell: its output and its connection are gone
Return ==
    /\ ~Quiet
    /\ UNCHANGED <<fs, rows>> /\ Idle

FreshIndex ==
    /\ rows = <<>>
    /\ call = NoCall /\ status = "ok" /\ out = <<>> /\ before = <<>> /\ work = <<>>
    /\ hashed = {} /\ list = NoList

\* a fresh index, and no image being parsed
Fresh == FreshIndex /\ exifData = NoTags /\ parsed = NoResult

\* a freshly initialised index over a root that holds img.jpg or nothing
Init ==
    /\ fs \in {EngineFs(img, t, a) :
                 img \in {Absent} \cup {FileNode(m, c) : m \in 1..MaxTime, c \in 1..MaxContent},
                 t \in 1..MaxTime, a \in {Absent, DirNode(1)}}
    /\ Fresh

Next ==
    \/ \E m \in 1..MaxTime, c \in 1..MaxContent : WriteFile(m, c)
    \/ DeleteFile
    \/ \E m \in 1..MaxTime : TouchRoot(m)
    \/ MakeDir
    \/ RemoveDir
    \/ Add
    \/ Remove
    \/ Sync
    \/ Return

Spec == Init /\ [][Next]_vars

\* the images a parser is built on: camera tags only
CameraImages ==
    { [NoTags EXCEPT
         !["Exif.Photo.FocalPlaneResolutionUnit"] = unit,
         !["Exif.Photo.FocalPlaneXResolution"] = xres,
         !["Exif.Photo.PixelXDimension"] = w,
         !["Exif.Photo.PixelYDimension"] = h,
         !["Exif.Photo.FocalLengthIn35mmFilm"] = f35,
         !["Exif.Image.FocalLengthIn35mmFilm"] = f35i,
         !["Exif.Photo.FocalLength"] = f,
         !["Exif.Image.Make"] = make,
         !["Exif.Image.Model"] = model] :
        unit \in {NoTag} \cup {Tag(u) : u \in 1..MaxUnit},
        xres \in {NoTag} \cup {Tag(x) : x \in 0..MaxRes},
        w \in {NoTag} \cup {Tag(x) : x \in 0..MaxPixels},
        h \in {NoTag, Tag(1)},
        f35 \in {NoTag} \cup {Tag(36 * k) : k \in 0..MaxFocal},
        f35i \in {NoTag, Tag(72)},
        f \in {NoTag, Tag(12)},
        make \in {NoTag, Tag(<<"D", "J", "I">>), Tag(<<>>), Tag(<<" ">>)},
        model \in {NoTag, Tag(<<"D", "J", "I", " ", "X">>)} }

\* the triples of rationals of a geotag; 1/0 is a rational without value
GeoTriples ==
    { <<deg, min, sec>> :
        deg \in {<<45 * k, 1>> : k \in 0..MaxDeg},
        min \in {<<30, 1>>, <<1, 0>>},
        sec \in {<<0, 1>>, <<36, 2>>} }

\* the images a parser is built on: GPS tags only
GeoImages ==
    { [NoTags EXCEPT
         !["Exif.GPSInfo.GPSLatitude"] = lat,
         !["Exif.GPSInfo.GPSLatitudeRef"] = latRef,
         !["Exif.GPSInfo.GPSLongitude"] = lon,
         !["Exif.GPSInfo.GPSLongitudeRef"] = lonRef,
         !["Exif.GPSInfo.GPSAltitude"] = alt] :
        lat \in {NoTag} \cup {Tag(t) : t \in GeoTriples},
        latRef \in {NoTag, Tag(<<"N">>), Tag(<<"S">>), Tag(<<"s">>), Tag(<<"W">>),
                    Tag(<<"w">>), Tag(<<"S", "W">>)},
        lon \in {NoTag, Tag(<<<<90, 1>>, <<0, 1>>, <<0, 1>>>>)},
        lonRef \in {NoTag, Tag(<<"E">>), Tag(<<"w">>)},
        alt \in {NoTag, Tag(<<7, 2>>), Tag(<<7, 0>>)} }

\* a method of the parser returned r
Parsed(r) ==
    /\ parsed = NoResult
    /\ parsed' = r
    /\ UNCHANGED <<fs, rows, call, status, out, before, work, hashed, list, exifData>>

ExtractSensorWidth ==
    /\ parsed = NoResult
    /\ Parsed([fn |-> "extractSensorWidth", width |-> extractSensorWidth])

ComputeFocal ==
    /\ parsed = NoResult
    /\ Parsed([fn |-> "computeFocal", focal |-> computeFocal])

ExtractGeo ==
    /\ parsed = NoResult
    /\ Parsed([fn |-> "extractGeo", geo |-> extractGeo])

ExtractSensor ==
    /\ parsed = NoResult
    /\ Parsed([fn |-> "extractSensor", sensor |-> extractSensor])

\* the parser alone, built on some image
InitExif ==
    /\ fs = FullFs /\ FreshIndex
    /\ exifData \in CameraImages \cup GeoImages
    /\ parsed = NoResult

NextExif == ExtractSensorWidth \/ ComputeFocal \/ ExtractGeo \/ ExtractSensor

SpecExif == InitExif /\ [][NextExif]_vars

\* the resolvers alone, over the full tree
InitPaths == fs = FullFs /\ Fresh

NextPaths == ResolveIndex \/ ResolvePaths \/ Return

SpecPaths == InitPaths /\ [][NextPaths]_vars

\* ------------------------------------------------------------------ claims
Engine == {"add", "remove", "sync"}

ImgPath == <<"img.jpg">>

RootPath == <<".">>

Lines(o, path) == {i \in 1..Len(out) : out[i] = Line(o, path)}

LinesFor(path) == {i \in 1..Len(out) : out[i][2] = path}

\* C1: when add, remove or sync fails at any step (path resolution, a read,
\* the classifier, a statement, also after rows were already inserted,
\* updated or deleted in that call), the persisted rows are exactly those
\* persisted before the call began.
C1_Atomic == (call.fn \in Engine /\ status # "ok") => rows = before

\* a call that failed after its connection had already changed rows
C1_Witness == call.fn \in Engine /\ status # "ok" /\ work # before /\ rows = before

\* C2: a sync that follows a successful sync, with no filesystem change in
\* between, emits no line and leaves every stored row unchanged.
C2_SyncIdempotent ==
    (call.fn = "sync" /\ status = "ok") =>
        LET again == Transaction("sync", rows, rows, 0, RootDir, RootDir)
        IN again.err = "ok" /\ again.out = <<>> /\ again.work = rows

\* a sync that updated a directory and met a touched file whose hash it
\* found unchanged
C2_Witness ==
    /\ call.fn = "sync" /\ status = "ok"
    /\ Lines("U", RootPath) # {}
    /\ ImgFile \in hashed /\ LinesFor(ImgPath) = {}

\* a candidate that lies outside the tracked root
OutsideRoot(p, cwd) == ~IsPrefix(RootDir, lexically_normal(absolute(p, cwd)))

\* C3: when any candidate of the list lies outside the tracked root, whatever
\* its position and whatever the other candidates, resolution fails with a
\* containment error, and add and remove insert, update and delete nothing
\* and emit no line.
C3_Containment ==
    (call.fn \in {"add", "remove"}
        /\ \E i \in 1..Len(call.paths) : OutsideRoot(call.paths[i], call.cwd)) =>
    (status = "containment" /\ out = <<>> /\ work = before /\ rows = before)

\* an add refused although its first candidate is a file inside the root
C3_Witness ==
    /\ call.fn = "add" /\ status = "containment" /\ Len(call.paths) = 2
    /\ ~OutsideRoot(call.paths[1], call.cwd) /\ exists(call.paths[1], call.cwd)
    /\ OutsideRoot(call.paths[2], call.cwd)

\* img.jpg is a file on disk and has a row in the table the call began with
Tracked == HasPath(before, ImgPath) /\ fs[ImgFile].kind = "file"

Stored == Lookup(before, ImgPath)

\* the row of img.jpg is, after the call, what it was before it
RowKept ==
    /\ HasPath(rows, ImgPath) /\ Lookup(rows, ImgPath) = Stored
    /\ HasPath(work, ImgPath) /\ Lookup(work, ImgPath) = Stored

\* the call went through its whole list and img.jpg was on it
Visited ==
    /\ status = "ok"
    /\ \/ call.fn = "sync"
       \/ call.fn = "add" /\ \E i \in 1..Len(call.paths) :
                                canonical(call.paths[i], call.cwd) = ImgFile

\* C4: for a tracked file whose live mtime equals the stored mtime, add and
\* sync compute no hash, emit no line for it and leave its row (its stored
\* hash in particular) unchanged, even when the content on disk is no longer
\* the content that produced the stored hash.
C4_MtimeTrust ==
    (call.fn \in {"add", "sync"} /\ Tracked /\ Stored.mtime = fs[ImgFile].mtime) =>
    (ImgFile \notin hashed /\ LinesFor(ImgPath) = {} /\ RowKept)

\* a sync that went over a file rewritten under an unchanged mtime
C4_Witness ==
    /\ call.fn = "sync" /\ Visited
    /\ Tracked /\ Stored.mtime = fs[ImgFile].mtime /\ Stored.hash # fs[ImgFile].content

\* C5: for a tracked file whose live mtime differs from the stored mtime but
\* whose content still has the stored hash, add and sync emit no line and do
\* not rewrite the row, so the stored mtime keeps its old value; a pass that
\* visits the file hashes it, and so does the next pass, which again reports
\* it unchanged.
C5_Touch ==
    (call.fn \in {"add", "sync"} /\ Tracked /\ Stored.mtime # fs[ImgFile].mtime
        /\ Stored.hash = fs[ImgFile].content) =>
    /\ LinesFor(ImgPath) = {} /\ RowKept
    /\ Visited => ImgFile \in hashed
    /\ LET again == Transaction("sync", rows, rows, 0, RootDir, RootDir)
       IN /\ ImgFile \in again.hashed
          /\ \A i \in 1..Len(again.out) : again.out[i][2] # ImgPath
          /\ Lookup(again.work, ImgPath) = Stored

\* an add that went over a touched file
C5_Witness ==
    /\ call.fn = "add" /\ Visited /\ ImgFile \in hashed
    /\ Tracked /\ Stored.mtime # fs[ImgFile].mtime /\ Stored.hash = fs[ImgFile].content

\* the row of img.jpg as the file is on disk
ImgRow == Row(ImgPath, fs[ImgFile].content, fs[ImgFile].mtime, getSize(ImgFile, RootDir))

\* C6: over a root that holds only img.jpg and a fresh index, add of img.jpg
\* emits exactly the line A img.jpg and leaves exactly one row, with the
\* file's hash, size and mtime; once img.jpg is deleted from disk, sync emits
\* exactly the line D img.jpg and leaves no row.
C6_Scenario ==
    /\ (call = Call("add", RootDir, <<ImgPath>>, TRUE, 0) /\ before = <<>>
           /\ fs[ImgFile].kind = "file" /\ fs[ADir] = Absent /\ status # "io") =>
       (status = "ok" /\ out = <<Line("A", ImgPath)>> /\ rows = <<ImgRow>>)
    /\ (call.fn = "sync" /\ Len(before) = 1 /\ before[1].path = ImgPath
           /\ fs[ImgFile] = Absent /\ fs[ADir] = Absent /\ status # "io") =>
       (status = "ok" /\ out = <<Line("D", ImgPath)>> /\ rows = <<>>)

\* the sync of the scenario: the one row that add left is gone
C6_Witness ==
    /\ call.fn = "sync" /\ status = "ok"
    /\ Len(before) = 1 /\ before[1].path = ImgPath
    /\ fs[ImgFile] = Absent /\ fs[ADir] = Absent
    /\ out = <<Line("D", ImgPath)>> /\ rows = <<>>

Resolvers == {"getIndexPathList", "getPathList"}

\* every path a resolver returned
Returned == Range(list.files) \cup list.dirs

\* C7: no path in the result of getIndexPathList or getPathList is the
\* ".ddb" directory or has ".ddb" as one of its segments, whether ".ddb" is
\* given as a candidate, a candidate lies inside it, or it is met at any depth
\* while a candidate directory is expanded.
C7_NoPrivateStorage ==
    call.fn \in Resolvers => \A p \in Returned : DdbName \notin Range(p)

\* getPathList called on the tracked root alone, with maxDepth = 1
RootAtDepthOne ==
    /\ call.fn = "getPathList" /\ call.maxDepth = 1
    /\ call.paths = <<RootPath>> /\ call.cwd = RootDir

InList(p) == p \in Range(list.files)

\* C8 as claimed: with maxDepth = 1 on a root containing a/b/c.txt the list
\* includes the directory a, includes a/b only if includeDirs is requested,
\* and never includes a/b/c.txt.
C8_AsClaimed ==
    RootAtDepthOne =>
        /\ InList(<<".", "a">>)
        /\ InList(<<".", "a", "b">>) => call.includeDirs
        /\ ~InList(<<".", "a", "b", "c.txt">>)

\* C8, amended: with maxDepth = 1 on a root containing a/b/c.txt the list
\* includes the directory a exactly when includeDirs is requested and never
\* includes a/b or a/b/c.txt; with maxDepth > 0 no entry lies more than
\* maxDepth levels below its candidate; with maxDepth <= 0 the recursion is
\* unlimited (a/b/c.txt is reached).
C8_DepthLimit ==
    /\ RootAtDepthOne =>
          /\ InList(<<".", "a">>) <=> call.includeDirs
          /\ ~InList(<<".", "a", "b">>)
          /\ ~InList(<<".", "a", "b", "c.txt">>)
    /\ (call.fn = "getPathList" /\ call.maxDepth > 0) =>
          \A e \in Range(list.files) :
              \E i \in 1..Len(call.paths) :
                  IsPrefix(call.paths[i], e) /\ Len(e) - Len(call.paths[i]) <= call.maxDepth
    /\ (call.fn = "getPathList" /\ call.maxDepth <= 0 /\ status = "ok"
           /\ call.cwd = RootDir /\ RootPath \in Range(call.paths)) =>
          InList(<<".", "a", "b", "c.txt">>)

\* the root listed one level deep with its directories: a is in the list
C8_Witness ==
    RootAtDepthOne /\ call.includeDirs /\ status = "ok" /\ InList(<<".", "a">>)

\* the path of x relative to the tracked root
RelOf(x, cwd) == lexically_normal(lexically_relative(absolute(x, cwd), RootDir))

\* the paths addToIndex goes through in the call that has just ended
ResolvedOf ==
    LET pl == getIndexPathList(RootDir, call.paths, TRUE, call.cwd)
    IN Range(pl.files) \cup pl.dirs

RowsAt(table, path) == {i \in 1..Len(table) : table[i].path = path}

\* C9: for each resolved path processed by addToIndex: if no row with its
\* relative path exists, exactly one row is inserted and one A line is
\* emitted; if a row exists and checkUpdate reports unchanged, nothing is
\* written and no line is emitted; if a row exists and checkUpdate reports
\* changed, the row is updated in place and one U line is emitted.  add never
\* deletes a row and never emits D.
C9_AddStateMachine ==
    (call.fn = "add" /\ status \notin {"io", "containment", "notfound"}) =>
    /\ status = "ok"
    /\ \A x \in ResolvedOf :
          LET r == RelOf(x, call.cwd) IN
          IF ~HasPath(before, r)
          THEN /\ Cardinality(RowsAt(rows, r)) = 1
               /\ Cardinality(Lines("A", r)) = 1 /\ LinesFor(r) = Lines("A", r)
          ELSE LET old == Lookup(before, r)
                   cu  == checkUpdate(x, old.mtime, old.hash, call.cwd)
               IN IF cu.changed
                  THEN /\ Lookup(rows, r) = parseEntry(x, RootDir, call.cwd)
                       /\ Cardinality(Lines("U", r)) = 1 /\ LinesFor(r) = Lines("U", r)
                  ELSE Lookup(rows, r) = old /\ LinesFor(r) = {}
    /\ \A i \in 1..Len(out) : out[i][1] # "D"
    /\ \A i \in 1..Len(before) : HasPath(rows, before[i].path)

\* C10: a successful sync visits every stored row: a row whose file is gone
\* is deleted with one D line; a row whose file exists is updated, with one U
\* line, exactly when checkUpdate reports changed, and is otherwise left
\* untouched.  sync never inserts: the stored paths after it are among those
\* before it, and a file on disk that is not tracked stays untracked.
C10_SyncStateMachine ==
    call.fn = "sync" =>
    /\ \A i \in 1..Len(rows) : HasPath(before, rows[i].path)
    /\ \A i \in 1..Len(work) : HasPath(before, work[i].path)
    /\ status = "ok" =>
          /\ \A i \in 1..Len(before) :
                LET r == before[i]
                    p == Join(RootDir, r.path)
                IN IF ~exists(p, RootDir)
                   THEN /\ ~HasPath(rows, r.path)
                        /\ Cardinality(Lines("D", r.path)) = 1
                        /\ LinesFor(r.path) = Lines("D", r.path)
                   ELSE IF checkUpdate(p, r.mtime, r.hash, RootDir).changed
                   THEN /\ Lookup(rows, r.path) = parseEntry(p, RootDir, RootDir)
                        /\ Cardinality(Lines("U", r.path)) = 1
                        /\ LinesFor(r.path) = Lines("U", r.path)
                   ELSE Lookup(rows, r.path) = r /\ LinesFor(r.path) = {}
          /\ \A i \in 1..Len(out) : HasPath(before, out[i][2])

\* a sync that deleted the row of a missing file and updated a directory
C10_Witness ==
    /\ call.fn = "sync" /\ status = "ok"
    /\ Lines("D", ImgPath) # {} /\ Lines("U", RootPath) # {}

\* the stored paths of a table
PathsOf(table) == {table[i].path : i \in 1..Len(table)}

\* the relative paths of the list removeFromIndex resolves (no ancestors)
RemoveKeys ==
    LET pl == getIndexPathList(RootDir, call.paths, FALSE, call.cwd)
    IN {RelOf(x, call.cwd) : x \in Range(pl.files) \cup pl.dirs}

\* C11: removeFromIndex deletes only rows whose relative path is in the list
\* resolved without ancestor expansion; every other row (the ancestor
\* directories of a removed file in particular) is left as it was and in
\* place; a D line is emitted for a path exactly when a row was deleted for
\* it, once, and nothing else is emitted.
C11_RemoveFrame ==
    call.fn = "remove" =>
        LET gone == PathsOf(before) \ PathsOf(work)
            kept(r) == r.path \notin gone
        IN /\ gone \subseteq RemoveKeys
           /\ work = SelectSeq(before, kept)
           /\ \A i \in 1..Len(out) : out[i][1] = "D" /\ out[i][2] \in gone
           /\ \A k \in gone : Cardinality(Lines("D", k)) = 1

\* a remove that named a tracked file twice: its row is deleted, reported
\* once, and the row of its parent directory stays
C11_Witness ==
    /\ call.fn = "remove" /\ status = "ok" /\ Len(call.paths) = 2
    /\ call.paths[1] = call.paths[2]
    /\ HasPath(before, ImgPath) /\ ~HasPath(rows, ImgPath)
    /\ HasPath(before, RootPath) /\ HasPath(rows, RootPath)
    /\ out = <<Line("D", ImgPath)>>

\* a candidate of the call that is not on disk or lies outside the root
Offending(p, cwd) == OutsideRoot(p, cwd) \/ ~exists(p, cwd)

\* C12 as claimed: when add or remove is given a list in which some candidate
\* does not exist on disk or lies outside the root, the call fails with
\* not-found or containment and nothing is written or emitted.
C12_AsClaimed ==
    (call.fn \in {"add", "remove"}
        /\ \E i \in 1..Len(call.paths) : Offending(call.paths[i], call.cwd)) =>
    /\ status \in {"notfound", "containment"}
    /\ out = <<>> /\ work = before /\ rows = before

\* a candidate that getIndexPathList looks for on disk and does not find
Missing(p, cwd) == filename(p) # DdbName /\ ~exists(p, cwd)

\* C12, amended: when add or remove is given a list in which some candidate
\* lies outside the root, or is not named ".ddb" and does not exist on disk,
\* the call fails with containment or not-found during path resolution: no
\* row is inserted, updated or deleted and no line is emitted, also for the
\* valid candidates before the offending one; remove of a tracked path whose
\* file is gone from disk fails with not-found and its row stays.  A
\* candidate named ".ddb" is passed over, on disk or not.
C12_StructuralFirst ==
    /\ (call.fn \in {"add", "remove"}
           /\ \E i \in 1..Len(call.paths) :
                 OutsideRoot(call.paths[i], call.cwd) \/ Missing(call.paths[i], call.cwd)) =>
          /\ status \in {"notfound", "containment"}
          /\ out = <<>> /\ work = before /\ rows = before
          /\ (\A i \in 1..Len(call.paths) : ~OutsideRoot(call.paths[i], call.cwd)) =>
                status = "notfound"
    /\ (call.fn \in {"add", "remove"}
           /\ \A i \in 1..Len(call.paths) : call.paths[i] = <<DdbName>>) =>
          (status \in {"ok", "io"} /\ out = <<>> /\ work = before)

\* a remove that names img.jpg, tracked but deleted from disk
C12_Witness ==
    /\ call.fn = "remove" /\ status = "notfound"
    /\ HasPath(before, ImgPath) /\ fs[ImgFile] = Absent
    /\ \E i \in 1..Len(call.paths) : RelOf(call.paths[i], call.cwd) = ImgPath
    /\ HasPath(rows, ImgPath)

RECURSIVE FirstOcc(_, _)
\* a sequence without the later occurrences of its elements
FirstOcc(xs, seen) ==
    IF xs = <<>> THEN <<>>
    ELSE IF Head(xs) \in seen THEN FirstOcc(Tail(xs), seen)
    ELSE <<Head(xs)>> \o FirstOcc(Tail(xs), seen \cup {Head(xs)})

\* the rows the call inserted, deleted and rewrote
Inserted == PathsOf(rows) \ PathsOf(before)

Deleted == PathsOf(before) \ PathsOf(rows)

Updated == {k \in PathsOf(before) \cap PathsOf(rows) : Lookup(rows, k) # Lookup(before, k)}

\* the relative paths in an order in which the call may have processed them
ProcessingOrders ==
    IF call.fn = "sync" THEN {[i \in 1..Len(before) |-> before[i].path]}
    ELSE LET pl == getIndexPathList(RootDir, call.paths, call.includeDirs, call.cwd)
         IN {[i \in 1..Len(xs) |-> RelOf(xs[i], call.cwd)] :
                xs \in {pl.files \o ord : ord \in SetToSeqs(pl.dirs)}}

\* C13: in every successful add, remove or sync exactly one line is emitted
\* for each row inserted (A), updated (U) or deleted (D), no line is emitted
\* for a path on which nothing was written, and the lines come in the order
\* in which the paths were processed.
C13_LogMatches ==
    (call.fn \in Engine /\ status = "ok") =>
    /\ \A i \in 1..Len(out) :
          \/ out[i][1] = "A" /\ out[i][2] \in Inserted
          \/ out[i][1] = "U" /\ out[i][2] \in Updated
          \/ out[i][1] = "D" /\ out[i][2] \in Deleted
    /\ \A k \in Inserted : Cardinality(Lines("A", k)) = 1
    /\ \A k \in Updated : Cardinality(Lines("U", k)) = 1
    /\ \A k \in Deleted : Cardinality(Lines("D", k)) = 1
    /\ \E ks \in ProcessingOrders :
          LET touched(k) == k \in Inserted \cup Updated \cup Deleted
          IN [i \in 1..Len(out) |-> out[i][2]] = SelectSeq(FirstOcc(ks, {}), touched)

\* an add that named a file twice: it inserted the file once, then rewrote
\* the row of a directory
C13_Witness ==
    /\ call.fn = "add" /\ status = "ok" /\ Len(call.paths) = 2
    /\ call.paths[1] = call.paths[2]
    /\ Len(out) = 2 /\ out[1][1] = "A" /\ out[2][1] = "U"

\* a normalized relative path strictly inside the tracked root
StrictlyInside(path) ==
    /\ path # <<>> /\ ~is_absolute(path)
    /\ lexically_normal(path) = path
    /\ ".." \notin Range(path)
    /\ path # RootPath

\* C14: after any sequence of add, remove and sync calls no two stored rows
\* have the same path, and every stored path is a normalized relative path
\* strictly inside the tracked root: no ".." segment, not the root itself,
\* not an ancestor of the root.
C14_PathInvariant ==
    /\ \A i, j \in 1..Len(rows) : rows[i].path = rows[j].path => i = j
    /\ \A i \in 1..Len(rows) : StrictlyInside(rows[i].path)

\* C15: for every candidate list (also one that names a file twice, or a
\* directory and something inside it) no path occurs more than once in the
\* result of getIndexPathList, in either mode, or of getPathList.
C15_Deduplicated ==
    call.fn \in Resolvers =>
        /\ \A i, j \in 1..Len(list.files) : list.files[i] = list.files[j] => i = j
        /\ \A i \in 1..Len(list.files) : list.files[i] \notin list.dirs

\* the stored rows whose entry is on disk with an mtime other than the stored
\* one, at the time the call began (the filesystem does not change during it)
Stale == {i \in 1..Len(before) :
            LET p == Join(RootDir, before[i].path)
            IN exists(p, RootDir) /\ getModifiedTime(p, RootDir) # before[i].mtime}

\* the stored paths the call went through
Processed ==
    IF call.fn = "sync" THEN PathsOf(before)
    ELSE IF call.fn = "add" THEN {RelOf(x, call.cwd) : x \in ResolvedOf}
    ELSE {}

\* C16: when the live mtime differs from the stored one, checkUpdate reports
\* a directory changed without hashing it, and hashes a file and reports it
\* changed exactly when the hash differs from the stored hash; after a
\* successful add or sync has processed an entry reported as changed, the
\* stored mtime (and hash, for a file) is the live one and the next pass
\* reports it unchanged.
C16_ChangeDetector ==
    \A i \in Stale :
        LET r  == before[i]
            p  == Join(RootDir, r.path)
            cu == checkUpdate(p, r.mtime, r.hash, RootDir)
        IN /\ is_directory(p, RootDir) => (cu.changed /\ ~cu.hashedIt)
           /\ ~is_directory(p, RootDir) =>
                 (cu.hashedIt /\ (cu.changed <=> fileSHA256(p, RootDir) # r.hash))
           /\ (status = "ok" /\ cu.changed /\ r.path \in Processed) =>
                 LET n == Lookup(rows, r.path)
                 IN /\ HasPath(rows, r.path)
                    /\ n.mtime = getModifiedTime(p, RootDir)
                    /\ ~is_directory(p, RootDir) => n.hash = fileSHA256(p, RootDir)
                    /\ ~checkUpdate(p, n.mtime, n.hash, RootDir).changed
                    /\ Cardinality(Lines("U", r.path)) = 1

\* a sync that rewrote the row of a modified file and the row of a touched
\* directory
C16_Witness ==
    /\ call.fn = "sync" /\ status = "ok"
    /\ \E i \in Stale : before[i].path = ImgPath /\ before[i].hash # fs[ImgFile].content
    /\ \E i \in Stale : before[i].path = RootPath
    /\ Lines("U", ImgPath) # {} /\ Lines("U", RootPath) # {}

\* the directories strictly between the tracked root and the location at
Between(at) ==
    {d \in Universe : IsPrefix(RootDir, d) /\ d # RootDir /\ IsPrefix(d, at) /\ d # at}

\* C17: getIndexPathList with includeDirs = true returns, for every file it
\* returns, each ancestor directory of the file inside the tracked root and
\* no directory beyond the root; with includeDirs = false every returned
\* path is a candidate or lies below a candidate directory.
C17_Ancestors ==
    (call.fn = "getIndexPathList" /\ status = "ok") =>
    /\ call.includeDirs =>
          /\ \A f \in Range(list.files) :
                \A d \in Between(canonical(f, call.cwd)) :
                    \E x \in list.dirs : canonical(x, call.cwd) = d
          /\ \A x \in list.dirs : IsPrefix(RootDir, canonical(x, call.cwd))
    /\ ~call.includeDirs =>
          \A x \in Returned : \E i \in 1..Len(call.paths) : IsPrefix(call.paths[i], x)

\* the tags extractSensorWidth reads
UnitTag == findKey(<<"Exif.Photo.FocalPlaneResolutionUnit", "Exif.Image.FocalPlaneResolutionUnit">>)

XResTag == findKey(<<"Exif.Photo.FocalPlaneXResolution", "Exif.Image.FocalPlaneXResolution">>)

\* an input of the sensor width is missing or unusable
WidthInputMissing ==
    \/ ~UnitTag.has
    \/ ~XResTag.has
    \/ UnitTag.v \notin {2, 3}
    \/ extractImageSize.width < 0

\* width_px * (1 / pixels_per_unit) * mm_per_unit
WidthFromTags ==
    FMul(FMul(Num(extractImageSize.width), FDiv(Num(1), Num(XResTag.v))),
         IF UnitTag.v = 2 THEN Flt(254, 10) ELSE Flt(10, 1))

\* C18: extractSensorWidth returns 0 when the resolution unit tag or the
\* X-resolution tag is absent, when the unit is neither 2 nor 3, or when the
\* image width is unavailable; it never returns a negative or non-finite
\* width; otherwise it returns width_px * (1 / pixels_per_unit) * mm_per_unit
\* with 25.4 mm for unit 2 and 10.0 mm for unit 3.
C18_SensorWidth ==
    parsed.fn = "extractSensorWidth" =>
    /\ WidthInputMissing => IsZero(parsed.width)
    /\ ~IsNegative(parsed.width) /\ IsFinite(parsed.width)
    /\ ~WidthInputMissing => parsed.width = WidthFromTags

\* the tags computeFocal reads
Focal35Tag == findKey(<<"Exif.Photo.FocalLengthIn35mmFilm", "Exif.Image.FocalLengthIn35mmFilm">>)

FocalTag == findKey(<<"Exif.Photo.FocalLength", "Exif.Image.FocalLength">>)

\* the sensor width of the fallback chain: the one of the resolution tags
\* when it is usable (positive), else the one of the lookup table, else none
ChainSensorWidth ==
    IF IsPositive(extractSensorWidth) THEN extractSensorWidth
    ELSE IF extractSensor.s \in DOMAIN sensorData THEN sensorData[extractSensor.s]
    ELSE Num(0)

\* C19: computeFocal returns f35 = the 35mm-equivalent tag and ratio = f35/36
\* when that tag is present and positive; otherwise it takes the sensor width
\* from the resolution tags, and from the lookup table whenever those yield
\* no usable (positive) width, and returns ratio = focal/sensorWidth and
\* f35 = 36*ratio when a positive sensor width and a raw focal-length tag
\* are both there; in every remaining case it returns f35 = ratio = 0.
C19_FocalChain ==
    parsed.fn = "computeFocal" =>
    /\ ~parsed.focal.hang
    /\ IF Focal35Tag.has /\ Focal35Tag.v > 0
       THEN /\ parsed.focal.f35 = Num(Focal35Tag.v)
            /\ parsed.focal.ratio = FDiv(Num(Focal35Tag.v), Num(36))
       ELSE IF IsPositive(ChainSensorWidth) /\ FocalTag.has
       THEN /\ parsed.focal.ratio = FDiv(Num(FocalTag.v), ChainSensorWidth)
            /\ parsed.focal.f35 = FMul(Num(36), parsed.focal.ratio)
       ELSE IsZero(parsed.focal.f35) /\ IsZero(parsed.focal.ratio)

\* the value of a rational: 0 when its denominator is 0
RationalValue(r) == IF r[2] = 0 THEN Num(0) ELSE FDiv(Num(r[1]), Num(r[2]))

\* -1 for the references S and W in either case, +1 for any other and for none
Hemisphere(ref) ==
    IF ref.has /\ ref.v \in {<<"S">>, <<"s">>, <<"W">>, <<"w">>} THEN -1 ELSE 1

\* sign * (deg + min/60 + sec/3600), and 0 without the coordinate tag
Decimal(coord, ref) ==
    IF ~coord.has THEN Num(0)
    ELSE FMul(Num(Hemisphere(ref)),
              FAdd(RationalValue(coord.v[1]),
                   FAdd(FDiv(RationalValue(coord.v[2]), Num(60)),
                        FDiv(RationalValue(coord.v[3]), Num(3600)))))

HalfPast45 == Tag(<<<<45, 1>>, <<30, 1>>, <<0, 1>>>>)

\* C20: geoToDecimal returns sign * (deg + min/60 + sec/3600) for a triple
\* of rationals, with sign -1 exactly when the reference tag is present and
\* is S or W in either case, a rational of denominator 0 counting as 0 and
\* an absent coordinate tag giving 0; (45,30,0) gives 45.5 with N and -45.5
\* with S.
C20_GeoToDecimal ==
    parsed.fn = "extractGeo" =>
    LET lat    == exifData["Exif.GPSInfo.GPSLatitude"]
        latRef == exifData["Exif.GPSInfo.GPSLatitudeRef"]
        lon    == exifData["Exif.GPSInfo.GPSLongitude"]
        lonRef == exifData["Exif.GPSInfo.GPSLongitudeRef"]
    IN /\ parsed.geo.latitude = Decimal(lat, latRef)
       /\ parsed.geo.longitude = Decimal(lon, lonRef)
       /\ (lat = HalfPast45 /\ latRef = Tag(<<"N">>)) => parsed.geo.latitude = Flt(91, 2)
       /\ (lat = HalfPast45 /\ latRef = Tag(<<"S">>)) => parsed.geo.latitude = Flt(-91, 2)

\* a southern latitude written in lower case whose minutes have denominator
\* 0, and a longitude without reference: -(45 + 0 + 18/3600) and +90
C20_Witness ==
    /\ parsed.fn = "extractGeo"
    /\ exifData["Exif.GPSInfo.GPSLatitude"] = Tag(<<<<45, 1>>, <<1, 0>>, <<36, 2>>>>)
    /\ exifData["Exif.GPSInfo.GPSLatitudeRef"] = Tag(<<"s">>)
    /\ exifData["Exif.GPSInfo.GPSLongitude"].has
    /\ ~exifData["Exif.GPSInfo.GPSLongitudeRef"].has
    /\ parsed.geo.latitude = Flt(-9001, 200)
    /\ parsed.geo.longitude = Num(90)

\* the lowercased make and model of the image
LowerMake == toLower(extractMake)

LowerModel == toLower(extractModel)

\* the model without any occurrence of the make, for a make that is known
\* and not empty (nothing of the model is an occurrence of an empty make)
ModelWithoutMake ==
    IF LowerMake # Unknown /\ LowerMake # <<>> THEN EraseAll(LowerModel, LowerMake)
    ELSE LowerModel

\* C21: extractSensor returns for every make and model, also for a make tag
\* that is present and empty or only whitespace, and what it returns is the
\* lowercase "<make> <model>" with trimmed components, every occurrence of
\* the make removed from the model when the make is not "unknown".
C21_SensorTerminates ==
    parsed.fn = "extractSensor" =>
    /\ ~parsed.sensor.hang
    /\ parsed.sensor.s = trim(LowerMake) \o <<" ">> \o trim(ModelWithoutMake)

\* the line tells of a write that is part of the table the call left behind
Backed(line) ==
    \/ line[1] = "A" /\ line[2] \in PathsOf(rows) /\ line[2] \notin PathsOf(before)
    \/ line[1] = "U" /\ line[2] \in PathsOf(rows) /\ line[2] \in PathsOf(before)
                     /\ Lookup(rows, line[2]) # Lookup(before, line[2])
    \/ line[1] = "D" /\ line[2] \notin PathsOf(rows) /\ line[2] \in PathsOf(before)

\* C22: every A, U or D line an add, remove or sync has written tells of an
\* insert, update or delete that is in the persisted table after the call;
\* a call that failed and was discarded has written no line.
C22_NoLineWithoutMutation ==
    call.fn \in Engine =>
    /\ \A i \in 1..Len(out) : Backed(out[i])
    /\ status # "ok" => out = <<>>
====
